---- MODULE Spec2Model ----
(***************************************************************************)
(* Model of the standup-notes migration tools:                             *)
(*   scripts/backfill-standup-notes.py      (the Planner, "backfill")      *)
(*   scripts/fix-existing-standup-docs.py   (the Reconciler, "fix")        *)
(* Both are single-threaded command line programs.  Every call to Google   *)
(* Drive or ClickUp is one step of the model and may fail; the Planner may *)
(* be interrupted between any two steps.  File system calls succeed.       *)
(*                                                                         *)
(* Strings are TLA+ strings.  The em dash of the document title            *)
(* (U+2014 in the source) is written "--".                                 *)
(***************************************************************************)
EXTENDS Naturals, Sequences, FiniteSets, TLC

(***************************************************************************)
(* Bounds of the model.                                                    *)
(***************************************************************************)
\* Number of documents the Drive folder holds at most.
NumSrc == 2
\* Number of invocations of the Planner in one behaviour.
MaxRuns == 2
\* Number of documents the ClickUp folder holds at most when the Reconciler
\* first runs.
MaxTargets == 2
\* Number of invocations of the Reconciler in one behaviour.
MaxFixRuns == 2
\* Number of invocations of the Reconciler in a behaviour that follows one
\* application of it.
MaxFixOnce == 1
\* Number of calls of each formatter on one input.
MaxCalls == 2

(***************************************************************************)
(* Values.                                                                 *)
(***************************************************************************)
None == "<None>"
NoFile == [exists |-> FALSE, processed_ids |-> <<>>]

Range(s) == {s[j] : j \in DOMAIN s}

\* Strings consisting of white space only: s.strip() is empty exactly for these.
Whitespace == {"", " ", "\n", " \n "}
strip(s) == IF s \in Whitespace THEN "" ELSE s
\* Python truthiness of "x and x.strip()".
NonBlank(s) == s # None /\ s # "" /\ strip(s) # ""

(***************************************************************************)
(* The Google Drive folder: the documents the list call returns, in        *)
(* createdTime order, with the plain-text export of each.                  *)
(***************************************************************************)
AllDrive ==
  << [id |-> "g1", name |-> "Daily Standup and Checkin - 2026/02/10 09:00",
      createdTime |-> [year |-> 2026, month |-> 2, day |-> 10, hour |-> 14]],
     [id |-> "g2", name |-> "Daily Standup and Checkin - 2026/02/11 09:00",
      createdTime |-> [year |-> 2026, month |-> 2, day |-> 11, hour |-> 14]],
     [id |-> "g3", name |-> "Daily Standup and Checkin - 2026/02/11 16:00",
      createdTime |-> [year |-> 2026, month |-> 2, day |-> 11, hour |-> 21]],
     [id |-> "g4", name |-> "Daily Standup and Checkin - 2026/03/02 09:00",
      createdTime |-> [year |-> 2026, month |-> 3, day |-> 2, hour |-> 14]] >>

DriveText(id) ==
  CASE id = "g1" -> "Standup notes for Tuesday"
    [] id = "g2" -> "Standup notes for Wednesday"
    [] id = "g3" -> ""
    [] OTHER     -> "Standup notes for Monday"

(***************************************************************************)
(* Formatting.                                                             *)
(***************************************************************************)
Pad2(n) == IF n < 10 THEN "0" \o ToString(n) ELSE ToString(n)

MonthName(m) ==
  << "January", "February", "March", "April", "May", "June", "July",
     "August", "September", "October", "November", "December" >>[m]

\* Day of the week of a Gregorian date (Sakamoto), 0 = Sunday.
DayOfWeek(y, m, d) ==
  LET t  == << 0, 3, 2, 5, 0, 3, 5, 1, 4, 6, 2, 4 >>
      yy == IF m < 3 THEN y - 1 ELSE y
  IN  (yy + (yy \div 4) - (yy \div 100) + (yy \div 400) + t[m] + d) % 7

DayName(w) ==
  << "Sunday", "Monday", "Tuesday", "Wednesday", "Thursday", "Friday",
     "Saturday" >>[w + 1]

\* dt.strftime("%Y-%m-%d")
IsoDate(dt) == ToString(dt.year) \o "-" \o Pad2(dt.month) \o "-" \o Pad2(dt.day)

\* dt.strftime("%A, %B %-d, %Y")
DisplayDate(dt) ==
  DayName(DayOfWeek(dt.year, dt.month, dt.day)) \o ", " \o MonthName(dt.month)
    \o " " \o ToString(dt.day) \o ", " \o ToString(dt.year)

\* "\n".join(lines)
RECURSIVE JoinLines(_)
JoinLines(lines) ==
  IF Len(lines) = 0 THEN ""
  ELSE IF Len(lines) = 1 THEN lines[1]
  ELSE lines[1] \o "\n" \o JoinLines(Tail(lines))

format_doc(file_name, created_time, text_content) ==
  LET iso_date == IsoDate(created_time)
      display_date == DisplayDate(created_time)
      doc_name == "Daily Standup -- " \o iso_date
  IN  [doc_name    |-> doc_name,
       description |-> "Standup notes from Google Meet (" \o iso_date \o ")",
       content     |-> JoinLines(<< "# " \o doc_name,
                                    "",
                                    "**Source:** " \o file_name,
                                    "**Date:** " \o display_date,
                                    "",
                                    "---",
                                    "",
                                    text_content >>)]

(***************************************************************************)
(* The state file of the Planner.                                          *)
(***************************************************************************)
\* The order of Python's string comparison on the Drive ids of the model.
IdRank(id) == CHOOSE j \in DOMAIN AllDrive : AllDrive[j].id = id
IdLess(a, b) == IdRank(a) < IdRank(b)

\* sorted(processed_ids): the ids in ascending order.
RECURSIVE sorted(_)
sorted(S) ==
  IF S = {} THEN <<>>
  ELSE LET m == CHOOSE x \in S : \A y \in S : ~IdLess(y, x)
       IN  <<m>> \o sorted(S \ {m})

\* load_state() reading a key the file does not have.
load_state_wrong_key(file) == {}

\* load_state(): the set of ids of the state file, empty when there is none.
load_state(file) ==
  IF file.exists THEN Range(file.processed_ids) ELSE {}

\* save_state(processed_ids): the file is written anew with the sorted ids.
save_state(processed_ids) ==
  [exists |-> TRUE, processed_ids |-> sorted(processed_ids)]

(***************************************************************************)
(* ClickUp.  A document is [id, name, src, pages]; a page is               *)
(* [id, name, content].  src is the Drive id in whose loop iteration the   *)
(* Planner created the document ("" for a document it did not create): it  *)
(* is bookkeeping of the model, ClickUp does not store it.                 *)
(***************************************************************************)
\* The page ClickUp creates with every new document.
DefaultPage(doc_id) == [id |-> doc_id \o "/p1", name |-> "", content |-> ""]

\* POST .../docs: the content of the payload is ignored.
NewDoc(store, name, src) ==
  LET doc_id == "doc-" \o ToString(Len(store) + 1)
  IN  [id |-> doc_id, name |-> name, src |-> src,
       pages |-> << DefaultPage(doc_id) >>]

\* PUT .../docs/{doc_id}/pages/{page_id} with content_edit_mode "replace".
PutPage(store, doc_id, page_id, name, content) ==
  [j \in DOMAIN store |->
     IF store[j].id # doc_id THEN store[j]
     ELSE [store[j] EXCEPT !.pages =
             [q \in DOMAIN store[j].pages |->
                IF store[j].pages[q].id = page_id
                THEN [id |-> page_id, name |-> name, content |-> content]
                ELSE store[j].pages[q]]]]

DocById(store, doc_id) ==
  store[CHOOSE j \in DOMAIN store : store[j].id = doc_id]

(***************************************************************************)
(* State.                                                                  *)
(***************************************************************************)
VARIABLES
  drive,        \* the documents of the Drive folder, in createdTime order
  clickup,      \* the documents of ClickUp, in creation order
  stateFile,    \* STATE_FILE
  pc,           \* position of the running tool, or how the last run ended
  runs,         \* invocations so far
  args,         \* flags of the current invocation
  processed,    \* backfill main: processed
  to_process,   \* backfill main: to_process
  i,            \* backfill main: loop index (1-based)
  item,         \* backfill main: locals of the iteration (text, doc_id, page)
  counts,       \* the counters of the run summary
  docs,         \* fix main: docs, the listed ClickUp documents
  drive_index,  \* fix main: drive_index
  duplicates,   \* fix main: duplicates, the groups of the duplicate report
  fmt,          \* an input of the formatters and what each call returned
  disk,         \* the text of STATE_FILE as write_text leaves it on the disk
  hist          \* bookkeeping of the model about this run and the previous one

vars == << drive, clickup, stateFile, pc, runs, args, processed, to_process,
           i, item, counts, docs, drive_index, duplicates, fmt, disk, hist >>

\* What only the Planner uses, and what only the Reconciler uses.
backfillVars == << stateFile, processed, to_process >>
fixVars == << docs, drive_index, duplicates >>

Stopped == {"init", "done", "aborted", "interrupted", "killed"}

\* What ends a run of the Planner before its loop: sys.exit(1) for a missing
\* credential, or the HTTPError of a failed token exchange or listing, which
\* nothing catches.
AbortCauses == {"no_credential", "token_error", "listing_error"}
PlannerPcs == {"export", "create", "pages", "edit", "record"}

NoItem == [text |-> None, doc_id |-> None, page_id |-> None]
NoCounts == [created |-> 0, skipped |-> 0, errors |-> 0,
             fixed |-> 0, refilled |-> 0, already_ok |-> 0]
NoFmt == [input |-> None, migration |-> << >>, repair |-> << >>]
NoDisk == [exists |-> FALSE, text |-> << >>]
NoArgs == [tool |-> "none", dry_run |-> FALSE, reset_state |-> FALSE,
           refill_from_drive |-> FALSE]

\* hist: before   = the ledger when the invocation began (before any reset)
\*       loaded   = what load_state() returned in this run
\*       attempted, recorded = Drive ids whose export was called / that were
\*                  added to the ledger in this run
\*       written  = Drive ids for which ClickUp was written in this run
\*       wcalls, saves = ClickUp write calls and save_state calls of this run
\*       reset_seen = some invocation so far has unlinked the state file
\*       cause    = why the run ended before its loop ("none": it did not)
\*       last     = the later of the last request to ClickUp ("call") and the
\*                  last time.sleep ("sleep") of this run, "none" before both
\*       unpaced  = some request to ClickUp of this run followed the one
\*                  before it with no time.sleep between them
\*       prev     = how the previous run ended, and its flags and recorded ids
NoHist == [before |-> {}, loaded |-> {}, attempted |-> {}, recorded |-> {},
           written |-> {}, wcalls |-> 0, saves |-> 0, reset_seen |-> FALSE,
           last |-> "none", unpaced |-> FALSE, cause |-> "none",
           prev |-> [kind |-> "init", dry_run |-> FALSE, recorded |-> {}]]

\* The work queue in the reverse of the listing order.
ToProcessReversed(listed, done) ==
  LET q == SelectSeq(listed, LAMBDA d : d.id \notin done)
  IN  [k \in DOMAIN q |-> q[Len(q) + 1 - k]]

\* The work queue without the ledger filter.
ToProcessUnfiltered(listed, done) == listed

\* backfill main, line 412: the listed documents not yet processed.
ToProcess(listed, done) == SelectSeq(listed, LAMBDA d : d.id \notin done)

InitPlanner ==
  /\ drive \in {SubSeq(AllDrive, 1, n) : n \in 0..NumSrc}
  /\ clickup = <<>>
  /\ stateFile = NoFile
  /\ pc = "init"
  /\ runs = 0
  /\ args = NoArgs
  /\ processed = {}
  /\ to_process = <<>>
  /\ i = 0
  /\ item = NoItem
  /\ counts = NoCounts
  /\ docs = <<>>
  /\ drive_index = << >>
  /\ duplicates = << >>
  /\ fmt = NoFmt
  /\ disk = NoDisk
  /\ hist = NoHist

(***************************************************************************)
(* The Planner: main() of backfill-standup-notes.py.                       *)
(***************************************************************************)
\* time.sleep(RATE_LIMIT_DELAY).
sleep(h) == [h EXCEPT !.last = "sleep"]

\* A request to ClickUp.
Request(h) == [h EXCEPT !.unpaced = @ \/ (h.last = "call"), !.last = "call"]

\* Lines 512-514: the sleep after an iteration that is not the last one.  An
\* iteration left by "continue" does not get here.
EndOfIteration(h) == IF i < Len(to_process) THEN sleep(h) ELSE h

\* The end of one loop iteration: the next document, or the summary.
NextItem ==
  /\ i' = i + 1
  /\ item' = NoItem
  /\ pc' = IF i < Len(to_process) THEN "export" ELSE "done"

\* A failure that ends the loop ("break" for "continue").
FailItemBreaks ==
  /\ counts' = [counts EXCEPT !.errors = @ + 1]
  /\ i' = i + 1
  /\ item' = NoItem
  /\ pc' = "done"

\* An iteration that ends in "errors += 1".
FailItem ==
  /\ counts' = [counts EXCEPT !.errors = @ + 1]
  /\ NextItem

StartHist(flags, loaded) ==
  [NoHist EXCEPT !.before = load_state(stateFile),
                 !.loaded = loaded,
                 !.reset_seen = hist.reset_seen
                                  \/ (flags.reset_state /\ stateFile.exists),
                 !.prev = [kind |-> pc, dry_run |-> args.dry_run,
                           recorded |-> hist.recorded]]

\* --reset-state: the state file is unlinked when it exists.
ResetState(flags, file) ==
  IF flags.reset_state /\ file.exists THEN NoFile ELSE file

\* Lines 386-430: flags, reset, authentication, listing, load_state, the
\* work queue and the dry run.
PStart(dry_run, reset_state) ==
  LET flags == [tool |-> "backfill", dry_run |-> dry_run,
                reset_state |-> reset_state, refill_from_drive |-> FALSE]
      listed == drive
      loaded == load_state(ResetState(flags, stateFile))
      queue == ToProcess(listed, loaded)
  IN  /\ pc \in Stopped
      /\ runs < MaxRuns
      /\ runs' = runs + 1
      /\ args' = flags
      /\ stateFile' = ResetState(flags, stateFile)
      /\ item' = NoItem
      /\ UNCHANGED fixVars
      /\ UNCHANGED << fmt, disk >>
      /\ UNCHANGED << drive, clickup >>
      /\ IF listed = <<>>
         THEN \* "Nothing to do."
              /\ processed' = {}
              /\ to_process' = <<>>
              /\ i' = 0
              /\ counts' = NoCounts
              /\ hist' = StartHist(flags, {})
              /\ pc' = "done"
         ELSE /\ processed' = loaded
              /\ to_process' = queue
              /\ counts' = [NoCounts EXCEPT
                              !.skipped = Len(listed) - Len(queue)]
              /\ hist' = StartHist(flags, loaded)
              /\ IF queue = <<>> \/ dry_run
                 THEN i' = 0 /\ pc' = "done"
                 ELSE i' = 1 /\ pc' = "export"

\* Lines 389-403: a missing credential, a failed token exchange or a failed
\* listing ends the process after the reset and before load_state.
PStartFails(dry_run, reset_state, cause) ==
  LET flags == [tool |-> "backfill", dry_run |-> dry_run,
                reset_state |-> reset_state, refill_from_drive |-> FALSE]
  IN  /\ pc \in Stopped
      /\ runs < MaxRuns
      /\ runs' = runs + 1
      /\ args' = flags
      /\ stateFile' = ResetState(flags, stateFile)
      /\ processed' = {}
      /\ to_process' = <<>>
      /\ i' = 0
      /\ item' = NoItem
      /\ counts' = NoCounts
      /\ hist' = [StartHist(flags, {}) EXCEPT !.cause = cause]
      /\ pc' = "aborted"
      /\ UNCHANGED fixVars
      /\ UNCHANGED << fmt, disk >>
      /\ UNCHANGED << drive, clickup >>

\* export_doc_as_text without raise_for_status: a failed export goes on to
\* create_clickup_doc.
PExportUnchecked(ok) ==
  LET doc == to_process[i]
  IN  /\ pc = "export"
      /\ hist' = [hist EXCEPT !.attempted = @ \cup {doc.id}]
      /\ item' = IF ok THEN [item EXCEPT !.text = DriveText(doc.id)] ELSE item
      /\ pc' = "create"
      /\ UNCHANGED << i, counts >>
      /\ UNCHANGED fixVars
      /\ UNCHANGED << fmt, disk >>
      /\ UNCHANGED << drive, clickup, stateFile, runs, args, processed,
                      to_process >>

\* Line 441: export_doc_as_text.
PExport(ok) ==
  LET doc == to_process[i]
  IN  /\ pc = "export"
      /\ hist' = LET h == [hist EXCEPT !.attempted = @ \cup {doc.id}]
                 IN  IF ok THEN h ELSE EndOfIteration(h)
      /\ IF ok
         THEN /\ item' = [item EXCEPT !.text = DriveText(doc.id)]
              /\ pc' = "create"
              /\ UNCHANGED << i, counts >>
         ELSE FailItem
      /\ UNCHANGED fixVars
      /\ UNCHANGED << fmt, disk >>
      /\ UNCHANGED << drive, clickup, stateFile, runs, args, processed,
                      to_process >>

\* Lines 442-466: format_doc, create_clickup_doc, extract_doc_id.
\* outcome: "ok", "no_id" (a response without a document id) or "error".
PCreate(outcome) ==
  LET doc == to_process[i]
      f == format_doc(doc.name, doc.createdTime, item.text)
      new == NewDoc(clickup, f.doc_name, doc.id)
      h == Request([hist EXCEPT !.wcalls = @ + 1,
                                !.written = @ \cup {doc.id}])
  IN  /\ pc = "create"
      /\ hist' = IF outcome = "error" THEN EndOfIteration(h) ELSE h
      /\ clickup' = IF outcome = "error" THEN clickup ELSE Append(clickup, new)
      /\ IF outcome = "ok"
         THEN /\ item' = [item EXCEPT !.doc_id = new.id]
              /\ pc' = "pages"
              /\ UNCHANGED << i, counts >>
         ELSE FailItem
      /\ UNCHANGED fixVars
      /\ UNCHANGED << fmt, disk >>
      /\ UNCHANGED << drive, stateFile, runs, args, processed, to_process >>

\* Lines 469-483: get_doc_pages and pages[0]["id"].
\* outcome: "ok", "empty" (no page listed) or "error".
PPages(outcome) ==
  LET pages == DocById(clickup, item.doc_id).pages
      h == Request(sleep(hist))
  IN  /\ pc = "pages"
      /\ hist' = IF outcome = "error" THEN EndOfIteration(h) ELSE h
      /\ IF outcome = "ok"
         THEN /\ item' = [item EXCEPT !.page_id = pages[1].id]
              /\ pc' = "edit"
              /\ UNCHANGED << i, counts >>
         ELSE FailItem
      /\ UNCHANGED fixVars
      /\ UNCHANGED << fmt, disk >>
      /\ UNCHANGED << drive, clickup, stateFile, runs, args, processed,
                      to_process >>

\* edit_default_page without raise_for_status: a failed PUT goes unnoticed.
PEditUnchecked(ok) ==
  /\ pc = "edit"
  /\ hist' = Request(sleep([hist EXCEPT !.wcalls = @ + 1,
                                        !.written = @ \cup {to_process[i].id}]))
  /\ clickup' = IF ok
                THEN LET doc == to_process[i]
                         f == format_doc(doc.name, doc.createdTime, item.text)
                     IN  PutPage(clickup, item.doc_id, item.page_id,
                                 f.doc_name, f.content)
                ELSE clickup
  /\ pc' = "record"
  /\ UNCHANGED fixVars
  /\ UNCHANGED << fmt, disk >>
  /\ UNCHANGED << drive, stateFile, runs, args, processed, to_process, i,
                  item, counts >>

\* Lines 486-495: edit_default_page.
PEdit(ok) ==
  LET doc == to_process[i]
      f == format_doc(doc.name, doc.createdTime, item.text)
      h == Request(sleep([hist EXCEPT !.wcalls = @ + 1,
                                      !.written = @ \cup {doc.id}]))
  IN  /\ pc = "edit"
      /\ hist' = IF ok THEN h ELSE EndOfIteration(h)
      /\ IF ok
         THEN /\ clickup' = PutPage(clickup, item.doc_id, item.page_id,
                                    f.doc_name, f.content)
              /\ pc' = "record"
              /\ UNCHANGED << i, item, counts >>
         ELSE /\ FailItem
              /\ UNCHANGED clickup
      /\ UNCHANGED fixVars
      /\ UNCHANGED << fmt, disk >>
      /\ UNCHANGED << drive, stateFile, runs, args, processed, to_process >>

\* The iteration's success recorded in memory only (no save_state).
PRecordUnsaved ==
  /\ pc = "record"
  /\ processed' = processed \cup {to_process[i].id}
  /\ counts' = [counts EXCEPT !.created = @ + 1]
  /\ hist' = EndOfIteration([hist EXCEPT
                               !.recorded = @ \cup {to_process[i].id}])
  /\ NextItem
  /\ UNCHANGED fixVars
  /\ UNCHANGED << fmt, disk >>
  /\ UNCHANGED << drive, clickup, stateFile, runs, args, to_process >>

\* Lines 497-500: processed.add, save_state, created += 1.
PRecord ==
  LET doc == to_process[i]
  IN  /\ pc = "record"
      /\ processed' = processed \cup {doc.id}
      /\ stateFile' = save_state(processed')
      /\ counts' = [counts EXCEPT !.created = @ + 1]
      /\ hist' = EndOfIteration([hist EXCEPT !.recorded = @ \cup {doc.id},
                                              !.saves = @ + 1])
      /\ NextItem
      /\ UNCHANGED fixVars
      /\ UNCHANGED << fmt, disk >>
      /\ UNCHANGED << drive, clickup, runs, args, to_process >>

\* The process is interrupted: between two documents ("interrupted") or
\* inside the work on one ("killed").  Only ClickUp and the state file stay.
PCrash ==
  /\ pc \in PlannerPcs
  /\ pc' = IF pc = "export" THEN "interrupted" ELSE "killed"
  /\ UNCHANGED fixVars
  /\ UNCHANGED << fmt, disk >>
  /\ UNCHANGED << drive, clickup, stateFile, runs, args, processed,
                  to_process, i, item, counts, hist >>

NextPlanner ==
  \/ \E d, r \in BOOLEAN : PStart(d, r)
  \/ \E d, r \in BOOLEAN : \E c \in AbortCauses : PStartFails(d, r, c)
  \/ \E ok \in BOOLEAN : PExport(ok)
  \/ \E o \in {"ok", "no_id", "error"} : PCreate(o)
  \/ \E o \in {"ok", "empty", "error"} : PPages(o)
  \/ \E ok \in BOOLEAN : PEdit(ok)
  \/ PRecord
  \/ PCrash

Spec == InitPlanner /\ [][NextPlanner]_vars

(***************************************************************************)
(* Properties of the Planner.                                              *)
(***************************************************************************)
\* The ids the state file holds.
PersistedIds ==
  IF stateFile.exists THEN Range(stateFile.processed_ids) ELSE {}

Ids(ds) == {ds[j].id : j \in DOMAIN ds}

Backfill == args.tool = "backfill"
\* The run got as far as load_state().
Loaded == Backfill /\ pc # "aborted" /\ drive # <<>>

\* The ClickUp documents created for a Drive document.
TargetsOf(id) == {j \in DOMAIN clickup : clickup[j].src = id}

\* ClickUp document j is fully populated for Drive document d.
Populated(j, d) ==
  LET f == format_doc(d.name, d.createdTime, DriveText(d.id))
  IN  /\ clickup[j].src = d.id
      /\ clickup[j].name = f.doc_name
      /\ Len(clickup[j].pages) >= 1
      /\ clickup[j].pages[1].name = f.doc_name
      /\ clickup[j].pages[1].content = f.content

\* C1 as stated: a complete non-dry run that follows a complete non-dry run,
\* with no reset between them, makes no ClickUp write call and does not write
\* the ledger (so that every listed document was skipped).
C1_SecondRunWritesNothing ==
  (/\ Backfill /\ pc = "done" /\ ~args.dry_run /\ ~args.reset_state
   /\ hist.prev.kind = "done" /\ ~hist.prev.dry_run)
  => (/\ hist.wcalls = 0
      /\ hist.saves = 0
      /\ counts.skipped = Len(drive))

\* C1 amended: in a run without --reset-state no ClickUp write call and no
\* ledger write is made for a document that is in the ledger when the run
\* loads it, which holds every document the previous run recorded; if the
\* ledger holds every listed document the run writes nothing at all and
\* skips them all.
C1_RecordedAreSkipped ==
  Loaded =>
    /\ ~args.reset_state => hist.prev.recorded \subseteq hist.loaded
    /\ hist.written \cap hist.loaded = {}
    /\ hist.recorded \cap hist.loaded = {}
    /\ Ids(to_process) \cap hist.loaded = {}
    /\ Ids(drive) \subseteq hist.loaded
         => /\ hist.wcalls = 0
            /\ hist.saves = 0
            /\ pc = "done"
            /\ counts.skipped = Len(drive)

C1_Witness ==
  /\ Backfill /\ pc = "done" /\ ~args.dry_run /\ ~args.reset_state
  /\ hist.prev.kind = "done" /\ ~hist.prev.dry_run
  /\ Len(drive) = 2
  /\ hist.prev.recorded = Ids(drive)
  /\ hist.wcalls = 0 /\ hist.saves = 0
  /\ counts.skipped = 2

\* C2: while the state file has never been reset, no Drive document has more
\* than one ClickUp document created for it.
C2_AtMostOneTarget ==
  ~hist.reset_seen =>
    \A j \in DOMAIN drive : Cardinality(TargetsOf(drive[j].id)) <= 1

\* C3: every id in the state file has a ClickUp document that was created for
\* it and whose page 0 holds the formatted body under the formatted title.
C3_LedgerComplete ==
  \A id \in PersistedIds :
    \E d \in Range(drive) :
      /\ d.id = id
      /\ \E j \in DOMAIN clickup : Populated(j, d)

C3_Witness ==
  /\ Cardinality(PersistedIds) = 2
  /\ \E j \in DOMAIN clickup : clickup[j].pages[1].content = ""

\* C4: at the end of a non-dry run every queued document has been attempted,
\* whatever failed before it, and the state file holds the ids loaded at the
\* start plus exactly the ids recorded in this run, each of them populated.
C4_FailureIsolation ==
  (Loaded /\ pc = "done" /\ ~args.dry_run) =>
    /\ hist.attempted = Ids(to_process)
    /\ PersistedIds = hist.loaded \cup hist.recorded
    /\ counts.created = Cardinality(hist.recorded)
    /\ \A d \in Range(to_process) :
         d.id \in hist.recorded => \E j \in DOMAIN clickup : Populated(j, d)

C4_Witness ==
  /\ Loaded /\ pc = "done" /\ ~args.dry_run
  /\ Len(to_process) = 2
  /\ counts.errors = 1
  /\ hist.recorded = {to_process[2].id}
  /\ PersistedIds = {to_process[2].id}

C6_CrashResume ==
  /\ pc \in {"export", "interrupted"} => PersistedIds = processed
  /\ (Loaded /\ hist.prev.kind = "interrupted" /\ ~args.reset_state) =>
       /\ Ids(to_process) \cap hist.prev.recorded = {}
       /\ hist.attempted \cap hist.prev.recorded = {}
       /\ hist.written \cap hist.prev.recorded = {}

C6_Witness ==
  /\ Loaded /\ pc = "done" /\ ~args.reset_state /\ ~args.dry_run
  /\ hist.prev.kind = "interrupted"
  /\ hist.prev.recorded # {}
  /\ hist.recorded # {}
  /\ counts.skipped = 1

\* C7: a dry run leaves the state file's ids as they were when the
\* invocation began and makes no ClickUp call.
C7_DryRunNoEffect ==
  (Backfill /\ args.dry_run) =>
    /\ PersistedIds = hist.before
    /\ hist.wcalls = 0

(***************************************************************************)
(* The Reconciler: fix-existing-standup-docs.py.                           *)
(***************************************************************************)
KNOWN_DUPLICATES ==
  [date \in {"2026-02-18", "2026-02-17", "2026-02-16", "2026-02-13",
             "2026-02-12", "2026-02-11", "2026-02-10"} |->
     CASE date = "2026-02-18" ->
            [original |-> "8cr2e8x-1717", duplicate |-> "8cr2e8x-1857"]
       [] date = "2026-02-17" ->
            [original |-> "8cr2e8x-1737", duplicate |-> "8cr2e8x-1877"]
       [] date = "2026-02-16" ->
            [original |-> "8cr2e8x-1757", duplicate |-> "8cr2e8x-1897"]
       [] date = "2026-02-13" ->
            [original |-> "8cr2e8x-1777", duplicate |-> "8cr2e8x-1917"]
       [] date = "2026-02-12" ->
            [original |-> "8cr2e8x-1797", duplicate |-> "8cr2e8x-1937"]
       [] date = "2026-02-11" ->
            [original |-> "8cr2e8x-1817", duplicate |-> "8cr2e8x-1957"]
       [] OTHER ->
            [original |-> "8cr2e8x-1837", duplicate |-> "8cr2e8x-1977"]]

\* The set built from the "original" column of the table.
original_ids == {KNOWN_DUPLICATES[d].original : d \in DOMAIN KNOWN_DUPLICATES}

\* fix main, line 352.
dup_ids == {KNOWN_DUPLICATES[d].duplicate : d \in DOMAIN KNOWN_DUPLICATES}

\* clear_page: the name and the content it writes.
ClearedName == "(duplicate - see page 1)"
ClearedContent == " "

\* format_doc_content with the day of the month as "%d" for "%-d".
format_doc_content_padded_day(file_name, created_time, text_content) ==
  LET iso_date == IsoDate(created_time)
      display_date ==
        DayName(DayOfWeek(created_time.year, created_time.month,
                          created_time.day))
          \o ", " \o MonthName(created_time.month) \o " "
          \o Pad2(created_time.day) \o ", " \o ToString(created_time.year)
      doc_name == "Daily Standup -- " \o iso_date
  IN  [doc_name |-> doc_name,
       content  |-> JoinLines(<< "# " \o doc_name,
                                 "",
                                 "**Source:** " \o file_name,
                                 "**Date:** " \o display_date,
                                 "",
                                 "---",
                                 "",
                                 text_content >>)]

format_doc_content(file_name, created_time, text_content) ==
  LET iso_date == IsoDate(created_time)
      display_date == DisplayDate(created_time)
      doc_name == "Daily Standup -- " \o iso_date
  IN  [doc_name |-> doc_name,
       content  |-> JoinLines(<< "# " \o doc_name,
                                 "",
                                 "**Source:** " \o file_name,
                                 "**Date:** " \o display_date,
                                 "",
                                 "---",
                                 "",
                                 text_content >>)]

\* build_drive_date_index: of the documents of one date the last one listed.
build_drive_date_index(drive_docs) ==
  LET DateOf(j) == IsoDate(drive_docs[j].createdTime)
      dates == {DateOf(j) : j \in DOMAIN drive_docs}
      Last(date) == CHOOSE j \in DOMAIN drive_docs :
                      /\ DateOf(j) = date
                      /\ \A q \in DOMAIN drive_docs : DateOf(q) = date => q <= j
  IN  [date \in dates |-> drive_docs[Last(date)]]

\* The names ClickUp documents have in the model, each as the text before
\* the first match of \d{4}-\d{2}-\d{2}, the match (None: no match) and the
\* text after it.
TargetNames ==
  { [pre |-> "Daily Standup -- ", date |-> "2026-02-11", post |-> ""],
    [pre |-> "Daily Standup -- ", date |-> "2026-02-18", post |-> ""],
    [pre |-> "Meeting notes", date |-> None, post |-> ""] }

NameText(n) == IF n.date = None THEN n.pre \o n.post
               ELSE n.pre \o n.date \o n.post

\* A date taken for every name, matching or not.
extract_date_or_default(name) ==
  IF \E n \in TargetNames : NameText(n) = name /\ n.date # None
  THEN (CHOOSE n \in TargetNames : NameText(n) = name).date
  ELSE "2026-02-11"

\* extract_date_from_name: the first match of the pattern in the name.
extract_date_from_name(name) ==
  IF \E n \in TargetNames : NameText(n) = name
  THEN (CHOOSE n \in TargetNames : NameText(n) = name).date
  ELSE None

\* The kinds of document the folder may hold when the tool runs: the name,
\* the contents of the pages (page 0 first) and whether the id is one of
\* the known duplicates.
Templates ==
  LET dated   == CHOOSE n \in TargetNames : n.date = "2026-02-11"
      unknown == CHOOSE n \in TargetNames : n.date = "2026-02-18"
      undated == CHOOSE n \in TargetNames : n.date = None
      T(n, l, kd) == [name |-> n, layout |-> l, known_dup |-> kd]
  IN  << T(dated, << "Standup notes..." >>, FALSE),
         T(dated, << >>, FALSE),
         T(dated, << "", "Standup notes..." >>, FALSE),
         T(dated, << "" >>, FALSE),
         T(unknown, << "", "Standup notes..." >>, TRUE),
         T(unknown, << "" >>, FALSE),
         T(undated, << "" >>, FALSE),
         T(dated, << " ", " \n " >>, FALSE),
         T(dated, << "", "", "Third page" >>, FALSE),
         T(dated, << "Standup notes...", "Old notes" >>, FALSE) >>

PageNames == << "", "Notes", "More" >>

\* The document of kind t at place j of the folder.
TargetDoc(j, t) ==
  LET doc_id == IF t.known_dup
                THEN KNOWN_DUPLICATES[IF j = 1 THEN "2026-02-18" ELSE
                                      IF j = 2 THEN "2026-02-11"
                                      ELSE "2026-02-10"].duplicate
                ELSE "t-" \o ToString(j)
  IN  [id |-> doc_id, name |-> NameText(t.name), src |-> "",
       pages |-> [q \in DOMAIN t.layout |->
                    [id |-> doc_id \o "/p" \o ToString(q),
                     name |-> PageNames[q], content |-> t.layout[q]]]]

\* The folders of n documents.  The tool works on each listed document on
\* its own, so the folders are taken up to the order of their documents.
Folders(n) ==
  LET shapes == {f \in [1..n -> DOMAIN Templates] :
                   \A j \in 1..n : j < n => f[j] <= f[j + 1]}
  IN  {[j \in 1..n |-> TargetDoc(j, Templates[f[j]])] : f \in shapes}

RNoItem == [pages |-> << >>, page2_name |-> None, page2_content |-> None,
            drive_doc |-> None, text |-> None]

\* hist of a Reconciler run:
\*   start   = ClickUp when the invocation began
\*   class   = the classification of each document read so far in this run
\*   outcome = the counter each document went to ("skipped": known duplicate)
\*   read    = ids of the documents whose pages were listed in this run (a
\*             page is read only after the listing of its document)
\*   exported = ids of the documents a Drive export was made for in this run
\*   written = ids of the documents a mutating call was made on in this run
\*   wcalls  = mutating calls (edit_page, clear_page) of this run
\*   last, unpaced = as for the Planner
\*   prev    = how the previous run ended, its flags, classes and outcomes
RNoHist == [start |-> << >>, class |-> << >>, outcome |-> << >>,
            read |-> {}, exported |-> {}, written |-> {}, wcalls |-> 0,
            last |-> "none", unpaced |-> FALSE,
            prev |-> [kind |-> "init", dry_run |-> FALSE,
                      refill_from_drive |-> FALSE,
                      class |-> << >>, outcome |-> << >>]]

InitReconciler ==
  /\ drive = SubSeq(AllDrive, 1, NumSrc)
  /\ clickup \in UNION {Folders(n) : n \in 0..MaxTargets}
  /\ stateFile = NoFile
  /\ pc = "init"
  /\ runs = 0
  /\ args = NoArgs
  /\ processed = {}
  /\ to_process = << >>
  /\ i = 0
  /\ item = RNoItem
  /\ counts = NoCounts
  /\ docs = << >>
  /\ drive_index = << >>
  /\ duplicates = << >>
  /\ fmt = NoFmt
  /\ disk = NoDisk
  /\ hist = RNoHist

\* GET .../docs of the folder: id and name of each document.
list_docs(store) == [j \in DOMAIN store |-> [id |-> store[j].id,
                                              name |-> store[j].name]]

\* GET .../page_listing: the pages of the document, in order.
get_doc_pages(store, doc_id) ==
  LET pages == DocById(store, doc_id).pages
  IN  [q \in DOMAIN pages |-> [id |-> pages[q].id]]

\* GET .../pages/{page_id}: name and content of the page.
get_page_content(store, doc_id, page_id) ==
  LET pages == DocById(store, doc_id).pages
      q == CHOOSE q \in DOMAIN pages : pages[q].id = page_id
  IN  [name |-> pages[q].name, content |-> pages[q].content]

\* Lines 327-329: the listed documents of each name, in the listed order.
by_name(listed) ==
  [name \in {listed[j].name : j \in DOMAIN listed} |->
     SelectSeq(listed, LAMBDA d : d.name = name)]

\* The report made of the documents that are not known duplicates.
DuplicatesOutsideKnown(listed) ==
  LET rest == SelectSeq(listed, LAMBDA d : d.id \notin dup_ids)
      groups == by_name(rest)
  IN  [name \in {n \in DOMAIN groups : Len(groups[n]) > 1} |-> groups[name]]

\* Line 331: the names with more than one document.
Duplicates(listed) ==
  LET groups == by_name(listed)
  IN  [name \in {n \in DOMAIN groups : Len(groups[n]) > 1} |-> groups[name]]

\* The end of one loop iteration: the next document, or the summary.
RNextDoc ==
  /\ i' = i + 1
  /\ item' = RNoItem
  /\ pc' = IF i < Len(docs) THEN "r_pages" ELSE "done"

\* A failure that ends the loop ("break" in the handlers of lines 441-449).
RCountBreaks(c, h) ==
  /\ counts' = [counts EXCEPT ![c] = @ + 1]
  /\ hist' = [h EXCEPT !.outcome = @ @@ (docs[i].id :> c)]
  /\ i' = i + 1
  /\ item' = RNoItem
  /\ pc' = IF i < Len(docs) /\ c # "errors" THEN "r_pages" ELSE "done"

\* The iteration ends with the counter c incremented.
RCount(c, h) ==
  /\ counts' = [counts EXCEPT ![c] = @ + 1]
  /\ hist' = [h EXCEPT !.outcome = @ @@ (docs[i].id :> c)]
  /\ RNextDoc

Classified(h, class) == [h EXCEPT !.class = @ @@ (docs[i].id :> class)]

\* The dry-run test of lines 426-429 left out.
RefillDecisionNoDryRun(h) ==
  LET doc_date == extract_date_from_name(docs[i].name)
  IN  IF ~args.refill_from_drive
      THEN RCount("already_ok", Classified(h, "NeedsManualRefill"))
      ELSE IF doc_date = None \/ doc_date \notin DOMAIN drive_index
      THEN RCount("errors", Classified(h, "NoSourceMatch"))
      ELSE /\ item' = [item EXCEPT !.drive_doc = drive_index[doc_date]]
           /\ pc' = "r_export"
           /\ hist' = Classified(h, "NeedsRefill")
           /\ UNCHANGED << i, counts >>

\* Lines 411-429: page 0 is blank and page 1 has nothing to offer.
RefillDecision(h) ==
  LET doc_date == extract_date_from_name(docs[i].name)
  IN  IF ~args.refill_from_drive
      THEN RCount("already_ok", Classified(h, "NeedsManualRefill"))
      ELSE IF doc_date = None \/ doc_date \notin DOMAIN drive_index
      THEN RCount("errors", Classified(h, "NoSourceMatch"))
      ELSE IF args.dry_run
      THEN RCount("refilled", Classified(h, "NeedsRefill"))
      ELSE /\ item' = [item EXCEPT !.drive_doc = drive_index[doc_date]]
           /\ pc' = "r_export"
           /\ hist' = Classified(h, "NeedsRefill")
           /\ UNCHANGED << i, counts >>

RStartHist(flags) ==
  [RNoHist EXCEPT !.start = clickup,
                  !.prev = [kind |-> pc, dry_run |-> args.dry_run,
                            refill_from_drive |-> args.refill_from_drive,
                            class |-> hist.class, outcome |-> hist.outcome]]

\* Lines 301-352: the token, the Drive index when refilling, the listing of
\* the folder and the duplicate report.
RStart(dry_run, refill_from_drive) ==
  LET flags == [tool |-> "fix", dry_run |-> dry_run, reset_state |-> FALSE,
                refill_from_drive |-> refill_from_drive]
      listed == list_docs(clickup)
  IN  /\ pc \in Stopped
      /\ runs < MaxFixRuns
      /\ runs' = runs + 1
      /\ args' = flags
      /\ drive_index' = IF refill_from_drive
                        THEN build_drive_date_index(drive) ELSE << >>
      /\ docs' = listed
      /\ duplicates' = Duplicates(listed)
      /\ counts' = NoCounts
      /\ item' = RNoItem
      /\ hist' = Request(RStartHist(flags))
      /\ IF listed = << >>
         THEN i' = 0 /\ pc' = "done"
         ELSE i' = 1 /\ pc' = "r_pages"
      /\ UNCHANGED backfillVars
      /\ UNCHANGED << fmt, disk >>
      /\ UNCHANGED << drive, clickup >>

\* Lines 304-319: a missing credential, or a failed token exchange, Drive
\* listing or folder listing ends the process before the loop (which of
\* them is not recorded).
RStartFails(dry_run, refill_from_drive) ==
  LET flags == [tool |-> "fix", dry_run |-> dry_run, reset_state |-> FALSE,
                refill_from_drive |-> refill_from_drive]
  IN  /\ pc \in Stopped
      /\ runs < MaxFixRuns
      /\ runs' = runs + 1
      /\ args' = flags
      /\ drive_index' = << >>
      /\ docs' = << >>
      /\ duplicates' = << >>
      /\ counts' = NoCounts
      /\ item' = RNoItem
      /\ i' = 0
      /\ hist' = RStartHist(flags)
      /\ pc' = "aborted"
      /\ UNCHANGED backfillVars
      /\ UNCHANGED << fmt, disk >>
      /\ UNCHANGED << drive, clickup >>

\* Lines 358-361: a known duplicate is passed over.
RSkip ==
  /\ pc = "r_pages"
  /\ docs[i].id \in dup_ids
  /\ hist' = [hist EXCEPT !.outcome = @ @@ (docs[i].id :> "skipped")]
  /\ RNextDoc
  /\ UNCHANGED backfillVars
  /\ UNCHANGED << fmt, disk >>
  /\ UNCHANGED << drive, clickup, runs, args, counts, docs, drive_index,
                  duplicates >>

ReadBy(h) == [h EXCEPT !.read = @ \cup {docs[i].id}]

\* Lines 364-373: get_doc_pages.
RListPages(ok) ==
  LET pages == get_doc_pages(clickup, docs[i].id)
  IN  /\ pc = "r_pages"
      /\ docs[i].id \notin dup_ids
      /\ IF ok /\ pages # << >>
         THEN /\ item' = [item EXCEPT !.pages = pages]
              /\ pc' = "r_read1"
              /\ hist' = Request(sleep(ReadBy(hist)))
              /\ UNCHANGED << i, counts >>
         ELSE RCount("errors", Request(sleep(ReadBy(hist))))
      /\ UNCHANGED backfillVars
      /\ UNCHANGED << fmt, disk >>
      /\ UNCHANGED << drive, clickup, runs, args, docs, drive_index,
                  duplicates >>

\* Page 0 read without the test of lines 380-382.
RRead1Unchecked(ok) ==
  /\ pc = "r_read1"
  /\ IF ~ok
     THEN RCount("errors", Request(sleep(hist)))
     ELSE IF Len(item.pages) >= 2
     THEN /\ pc' = "r_read2"
          /\ hist' = Request(sleep(hist))
          /\ UNCHANGED << i, item, counts >>
     ELSE RefillDecision(Request(sleep(hist)))
  /\ UNCHANGED backfillVars
  /\ UNCHANGED << fmt, disk >>
  /\ UNCHANGED << drive, clickup, runs, args, docs, drive_index,
                  duplicates >>

\* Lines 375-385 (and 411-429 for a document of one page): page 0 is read.
RRead1(ok) ==
  LET page1_content ==
        get_page_content(clickup, docs[i].id, item.pages[1].id).content
      h == Request(sleep(hist))
  IN  /\ pc = "r_read1"
      /\ IF ~ok
         THEN RCount("errors", h)
         ELSE IF NonBlank(page1_content)
         THEN RCount("already_ok", Classified(h, "AlreadyOk"))
         ELSE IF Len(item.pages) >= 2
         THEN /\ pc' = "r_read2"
              /\ hist' = h
              /\ UNCHANGED << i, item, counts >>
         ELSE RefillDecision(h)
      /\ UNCHANGED backfillVars
      /\ UNCHANGED << fmt, disk >>
      /\ UNCHANGED << drive, clickup, runs, args, docs, drive_index,
                  duplicates >>

\* Lines 386-399 (and 411-429 when page 1 is blank too): page 1 is read.
RRead2(ok) ==
  LET page2_detail ==
        get_page_content(clickup, docs[i].id, item.pages[2].id)
      h == Request(sleep(hist))
  IN  /\ pc = "r_read2"
      /\ IF ~ok
         THEN RCount("errors", h)
         ELSE IF NonBlank(page2_detail.content)
         THEN IF args.dry_run
              THEN RCount("fixed", Classified(h, "NeedsPromotion"))
              ELSE /\ item' = [item EXCEPT
                                 !.page2_name = page2_detail.name,
                                 !.page2_content = page2_detail.content]
                   /\ pc' = "r_copy"
                   /\ hist' = Classified(h, "NeedsPromotion")
                   /\ UNCHANGED << i, counts >>
         ELSE RefillDecision(h)
      /\ UNCHANGED backfillVars
      /\ UNCHANGED << fmt, disk >>
      /\ UNCHANGED << drive, clickup, runs, args, docs, drive_index,
                  duplicates >>

\* The sleep before a mutating call, and the call.
Mutated(h) ==
  Request(sleep([h EXCEPT !.wcalls = @ + 1, !.written = @ \cup {docs[i].id}]))

\* The copy made under the document's name instead of page 1's name.
RCopyDocName(ok) ==
  /\ pc = "r_copy"
  /\ IF ok
     THEN /\ clickup' = PutPage(clickup, docs[i].id, item.pages[1].id,
                                docs[i].name, item.page2_content)
          /\ pc' = "r_clear"
          /\ hist' = Mutated(hist)
          /\ UNCHANGED << i, item, counts >>
     ELSE /\ RCount("errors", Mutated(hist))
          /\ UNCHANGED clickup
  /\ UNCHANGED backfillVars
  /\ UNCHANGED << fmt, disk >>
  /\ UNCHANGED << drive, runs, args, docs, drive_index,
                  duplicates >>

\* edit_page without raise_for_status: a failed copy goes on to clear_page.
RCopyUnchecked(ok) ==
  /\ pc = "r_copy"
  /\ clickup' = IF ok
                THEN PutPage(clickup, docs[i].id, item.pages[1].id,
                             item.page2_name, item.page2_content)
                ELSE clickup
  /\ pc' = "r_clear"
  /\ hist' = Mutated(hist)
  /\ UNCHANGED << i, item, counts >>
  /\ UNCHANGED backfillVars
  /\ UNCHANGED << fmt, disk >>
  /\ UNCHANGED << drive, runs, args, docs, drive_index,
                  duplicates >>

\* Lines 401-403: edit_page writes page 1's name and content into page 0.
RCopy(ok) ==
  /\ pc = "r_copy"
  /\ IF ok
     THEN /\ clickup' = PutPage(clickup, docs[i].id, item.pages[1].id,
                                item.page2_name, item.page2_content)
          /\ pc' = "r_clear"
          /\ hist' = Mutated(hist)
          /\ UNCHANGED << i, item, counts >>
     ELSE /\ RCount("errors", Mutated(hist))
          /\ UNCHANGED clickup
  /\ UNCHANGED backfillVars
  /\ UNCHANGED << fmt, disk >>
  /\ UNCHANGED << drive, runs, args, docs, drive_index,
                  duplicates >>

\* clear_page called with page 0's id.
RClearPage0(ok) ==
  /\ pc = "r_clear"
  /\ IF ok
     THEN /\ clickup' = PutPage(clickup, docs[i].id, item.pages[1].id,
                                ClearedName, ClearedContent)
          /\ RCount("fixed", Mutated(hist))
     ELSE /\ RCount("errors", Mutated(hist))
          /\ UNCHANGED clickup
  /\ UNCHANGED backfillVars
  /\ UNCHANGED << fmt, disk >>
  /\ UNCHANGED << drive, runs, args, docs, drive_index,
                  duplicates >>

\* Lines 405-409: clear_page on page 1, fixed += 1.
RClear(ok) ==
  /\ pc = "r_clear"
  /\ IF ok
     THEN /\ clickup' = PutPage(clickup, docs[i].id, item.pages[2].id,
                                ClearedName, ClearedContent)
          /\ RCount("fixed", Mutated(hist))
     ELSE /\ RCount("errors", Mutated(hist))
          /\ UNCHANGED clickup
  /\ UNCHANGED backfillVars
  /\ UNCHANGED << fmt, disk >>
  /\ UNCHANGED << drive, runs, args, docs, drive_index,
                  duplicates >>

Exported(h) == [h EXCEPT !.exported = @ \cup {docs[i].id}]

\* Line 431: export_doc_as_text of the Drive document of the same date.
RExport(ok) ==
  /\ pc = "r_export"
  /\ IF ok
     THEN /\ item' = [item EXCEPT !.text = DriveText(item.drive_doc.id)]
          /\ pc' = "r_write"
          /\ hist' = Exported(hist)
          /\ UNCHANGED << i, counts >>
     ELSE RCount("errors", Exported(hist))
  /\ UNCHANGED backfillVars
  /\ UNCHANGED << fmt, disk >>
  /\ UNCHANGED << drive, clickup, runs, args, docs, drive_index,
                  duplicates >>

\* The export written as it is, without format_doc_content.
RWriteRawText(ok) ==
  /\ pc = "r_write"
  /\ IF ok
     THEN /\ clickup' = PutPage(clickup, docs[i].id, item.pages[1].id,
                                docs[i].name, item.text)
          /\ RCount("refilled", Mutated(hist))
     ELSE /\ RCount("errors", Mutated(hist))
          /\ UNCHANGED clickup
  /\ UNCHANGED backfillVars
  /\ UNCHANGED << fmt, disk >>
  /\ UNCHANGED << drive, runs, args, docs, drive_index,
                  duplicates >>

\* The refill written to the last page of the listing instead of the first.
RWriteLastPage(ok) ==
  LET f == format_doc_content(item.drive_doc.name, item.drive_doc.createdTime,
                              item.text)
  IN  /\ pc = "r_write"
      /\ IF ok
         THEN /\ clickup' = PutPage(clickup, docs[i].id,
                                    item.pages[Len(item.pages)].id,
                                    docs[i].name, f.content)
              /\ RCount("refilled", Mutated(hist))
         ELSE /\ RCount("errors", Mutated(hist))
              /\ UNCHANGED clickup
      /\ UNCHANGED backfillVars
      /\ UNCHANGED << fmt, disk >>
      /\ UNCHANGED << drive, runs, args, docs, drive_index,
                  duplicates >>

\* Lines 432-439: format_doc_content, edit_page on page 0, refilled += 1.
RWrite(ok) ==
  LET f == format_doc_content(item.drive_doc.name, item.drive_doc.createdTime,
                              item.text)
  IN  /\ pc = "r_write"
      /\ IF ok
         THEN /\ clickup' = PutPage(clickup, docs[i].id, item.pages[1].id,
                                    docs[i].name, f.content)
              /\ RCount("refilled", Mutated(hist))
         ELSE /\ RCount("errors", Mutated(hist))
              /\ UNCHANGED clickup
      /\ UNCHANGED backfillVars
      /\ UNCHANGED << fmt, disk >>
      /\ UNCHANGED << drive, runs, args, docs, drive_index,
                  duplicates >>

NextReconciler ==
  \/ \E d, r \in BOOLEAN : RStart(d, r)
  \/ \E d, r \in BOOLEAN : RStartFails(d, r)
  \/ RSkip
  \/ \E ok \in BOOLEAN : RListPages(ok)
  \/ \E ok \in BOOLEAN : RRead1(ok)
  \/ \E ok \in BOOLEAN : RRead2(ok)
  \/ \E ok \in BOOLEAN : RCopy(ok)
  \/ \E ok \in BOOLEAN : RClear(ok)
  \/ \E ok \in BOOLEAN : RExport(ok)
  \/ \E ok \in BOOLEAN : RWrite(ok)

SpecReconciler == InitReconciler /\ [][NextReconciler]_vars

\* One application of the Reconciler to a folder.
NextReconcilerRun ==
  \/ \E d, r \in BOOLEAN : runs < MaxFixOnce /\ RStart(d, r)
  \/ \E d, r \in BOOLEAN : runs < MaxFixOnce /\ RStartFails(d, r)
  \/ RSkip
  \/ \E ok \in BOOLEAN : RListPages(ok)
  \/ \E ok \in BOOLEAN : RRead1(ok)
  \/ \E ok \in BOOLEAN : RRead2(ok)
  \/ \E ok \in BOOLEAN : RCopy(ok)
  \/ \E ok \in BOOLEAN : RClear(ok)
  \/ \E ok \in BOOLEAN : RExport(ok)
  \/ \E ok \in BOOLEAN : RWrite(ok)

SpecReconcilerRun == InitReconciler /\ [][NextReconcilerRun]_vars

(***************************************************************************)
(* Properties of the Reconciler.                                           *)
(***************************************************************************)
Fix == args.tool = "fix"

\* This run follows a complete non-dry run made with the same flags.
SecondApplication ==
  /\ Fix /\ ~args.dry_run
  /\ hist.prev.kind = "done" /\ ~hist.prev.dry_run
  /\ hist.prev.refill_from_drive = args.refill_from_drive

Was(f, id, values) == id \in DOMAIN f /\ f[id] \in values

\* C8 as stated: the second of two successive non-dry applications makes no
\* mutating call, and classifies AlreadyOk every document the first one
\* classified NeedsPromotion or NeedsRefill.
C8_SecondRunIsNoOp ==
  SecondApplication =>
    /\ hist.wcalls = 0
    /\ \A id \in DOMAIN hist.class :
         Was(hist.prev.class, id, {"NeedsPromotion", "NeedsRefill"})
           => hist.class[id] = "AlreadyOk"

\* C8 amended: the second of two successive non-dry applications makes
\* mutating calls only on documents whose processing ended in an error in
\* the first, and classifies AlreadyOk every document the first one counted
\* as fixed or refilled.
C8_ConvergesWhereFirstSucceeded ==
  SecondApplication =>
    /\ \A id \in hist.written : Was(hist.prev.outcome, id, {"errors"})
    /\ \A id \in DOMAIN hist.class :
         Was(hist.prev.outcome, id, {"fixed", "refilled"})
           => hist.class[id] = "AlreadyOk"

C8_Witness ==
  /\ SecondApplication /\ pc = "done"
  /\ Len(docs) = 2
  /\ \E a, b \in DOMAIN hist.class :
       /\ Was(hist.prev.class, a, {"NeedsPromotion"})
       /\ Was(hist.prev.outcome, a, {"fixed"})
       /\ Was(hist.prev.class, b, {"NeedsRefill"})
       /\ Was(hist.prev.outcome, b, {"refilled"})
       /\ hist.class[a] = "AlreadyOk" /\ hist.class[b] = "AlreadyOk"
  /\ hist.wcalls = 0

\* Page 0 of the document is the one page with content.
OnePopulatedPage(doc) ==
  /\ Len(doc.pages) >= 1
  /\ NonBlank(doc.pages[1].content)
  /\ \A q \in 2..Len(doc.pages) : ~NonBlank(doc.pages[q].content)

\* C9: when a non-dry run has ended, every document it counted as fixed,
\* refilled or already-ok has content in page 0 and in no other page.
C9_OnePopulatedPage ==
  (Fix /\ pc = "done" /\ ~args.dry_run) =>
    \A id \in DOMAIN hist.outcome :
      hist.outcome[id] \in {"fixed", "refilled", "already_ok"}
        => OnePopulatedPage(DocById(clickup, id))

\* C10: a document is classified NeedsPromotion exactly when its page 0 is
\* blank and its page 1 has content; a non-dry run then ends it as fixed or
\* as an error; when fixed, page 0 holds the name and content page 1 had,
\* page 1 holds the marker name and a single blank, the other pages are as
\* they were, and fixed counts it once; the next run finds it AlreadyOk.
C10_Promotion ==
  Fix =>
    /\ \A j \in DOMAIN clickup :
         LET id == clickup[j].id
             was == hist.start[j].pages
             now == clickup[j].pages
         IN  /\ id \in DOMAIN hist.class =>
                  (hist.class[id] = "NeedsPromotion"
                     <=> /\ Len(was) >= 2
                         /\ ~NonBlank(was[1].content)
                         /\ NonBlank(was[2].content))
             /\ (/\ ~args.dry_run
                 /\ Was(hist.class, id, {"NeedsPromotion"})
                 /\ id \in DOMAIN hist.outcome) =>
                  /\ hist.outcome[id] \in {"fixed", "errors"}
                  /\ hist.outcome[id] = "fixed" =>
                       /\ now[1] = [id |-> was[1].id, name |-> was[2].name,
                                    content |-> was[2].content]
                       /\ now[2] = [id |-> was[2].id, name |-> ClearedName,
                                    content |-> ClearedContent]
                       /\ \A q \in 3..Len(was) : now[q] = was[q]
                       /\ Len(now) = Len(was)
             /\ (/\ ~hist.prev.dry_run
                 /\ Was(hist.prev.outcome, id, {"fixed"})
                 /\ id \in DOMAIN hist.class) =>
                  hist.class[id] = "AlreadyOk"
    /\ counts.fixed = Cardinality({id \in DOMAIN hist.outcome :
                                     hist.outcome[id] = "fixed"})

C10_Witness ==
  /\ Fix /\ pc = "done" /\ ~args.dry_run /\ ~hist.prev.dry_run
  /\ \E j \in DOMAIN clickup :
       /\ Was(hist.prev.outcome, clickup[j].id, {"fixed"})
       /\ Was(hist.class, clickup[j].id, {"AlreadyOk"})
       /\ clickup[j].pages[1].content = "Standup notes..."
       /\ clickup[j].pages[1].name = "Notes"
       /\ clickup[j].pages[2].name = ClearedName
       /\ clickup[j].pages[2].content = " "

\* The document with this id as it was when the run began.
StartDoc(id) == DocById(hist.start, id)

Page0Blank(doc) == Len(doc.pages) >= 1 /\ ~NonBlank(doc.pages[1].content)
Page1Usable(doc) == Len(doc.pages) >= 2 /\ NonBlank(doc.pages[2].content)

\* The Drive documents created on the date the document's name carries.
SourcesFor(doc) ==
  {d \in Range(drive) : IsoDate(d.createdTime) = extract_date_from_name(doc.name)}

\* The class the page state of a document calls for.
ClassOf(doc, refill) ==
  IF ~Page0Blank(doc) THEN "AlreadyOk"
  ELSE IF Page1Usable(doc) THEN "NeedsPromotion"
  ELSE IF ~refill THEN "NeedsManualRefill"
  ELSE IF SourcesFor(doc) = {} THEN "NoSourceMatch"
  ELSE "NeedsRefill"

OutcomeCount(c) ==
  Cardinality({id \in DOMAIN hist.outcome : hist.outcome[id] = c})

\* C11: in a dry run, with or without --refill-from-drive, no edit_page or
\* clear_page call is made and ClickUp stays as it was; every document that
\* is read gets the class its pages call for; a document that would be
\* promoted is counted once as would-fix and one that would be refilled once
\* as would-refill; and when the run ends the pages of every listed document
\* that is not a known duplicate have been requested.
C11_DryRunSuppressesMutation ==
  (Fix /\ args.dry_run) =>
    /\ hist.wcalls = 0 /\ hist.written = {} /\ hist.exported = {}
    /\ clickup = hist.start
    /\ pc \notin {"r_copy", "r_clear", "r_export", "r_write"}
    /\ \A id \in DOMAIN hist.class :
         /\ hist.class[id] = ClassOf(StartDoc(id), args.refill_from_drive)
         /\ id \in DOMAIN hist.outcome
         /\ hist.outcome[id] = "fixed" <=> hist.class[id] = "NeedsPromotion"
         /\ hist.outcome[id] = "refilled" <=> hist.class[id] = "NeedsRefill"
    /\ counts.fixed = OutcomeCount("fixed")
    /\ counts.refilled = OutcomeCount("refilled")
    /\ pc = "done" =>
         \A j \in DOMAIN docs :
           docs[j].id \notin dup_ids =>
             /\ docs[j].id \in hist.read
             /\ \/ docs[j].id \in DOMAIN hist.class
                \/ Was(hist.outcome, docs[j].id, {"errors"})

C11_Witness ==
  /\ Fix /\ args.dry_run /\ args.refill_from_drive /\ pc = "done"
  /\ counts.fixed = 1 /\ counts.refilled = 1
  /\ hist.wcalls = 0
  /\ \E a, b \in DOMAIN hist.class :
       /\ hist.class[a] = "NeedsPromotion" /\ Page1Usable(DocById(clickup, a))
       /\ hist.class[b] = "NeedsRefill" /\ Page0Blank(DocById(clickup, b))

\* The ids the KNOWN_DUPLICATES table names as duplicates.
KnownDuplicateIds ==
  {"8cr2e8x-1857", "8cr2e8x-1877", "8cr2e8x-1897", "8cr2e8x-1917",
   "8cr2e8x-1937", "8cr2e8x-1957", "8cr2e8x-1977"}

\* C12: in every run the folder keeps its documents, their ids, names and
\* pages; a document whose page 0 had content when the run began, or whose id
\* is a known duplicate, is exactly as it was and received no mutating call;
\* pages after page 1 are never written; and a mutating call is made only on
\* a document that is not a known duplicate and whose page 0 was read as
\* blank in this run.
C12_PreservedContentUntouched ==
  Fix =>
    /\ Len(clickup) = Len(hist.start)
    /\ \A j \in DOMAIN clickup :
         LET was == hist.start[j]
             now == clickup[j]
         IN  /\ now.id = was.id /\ now.name = was.name
             /\ Len(now.pages) = Len(was.pages)
             /\ \A q \in DOMAIN was.pages :
                  /\ now.pages[q].id = was.pages[q].id
                  /\ q >= 3 => now.pages[q] = was.pages[q]
             /\ (~Page0Blank(was) \/ was.id \in KnownDuplicateIds) =>
                  /\ now = was
                  /\ was.id \notin hist.written
             /\ was.id \in hist.written =>
                  /\ was.id \notin KnownDuplicateIds
                  /\ Page0Blank(was)
                  /\ Was(hist.class, was.id, {"NeedsPromotion", "NeedsRefill"})

C12_Witness ==
  /\ Fix /\ ~args.dry_run /\ pc = "done"
  /\ hist.wcalls = 2
  /\ \E j, k \in DOMAIN clickup :
       /\ ~Page0Blank(hist.start[j])
       /\ Page1Usable(hist.start[j])
       /\ clickup[j] = hist.start[j]
       /\ Was(hist.outcome, clickup[j].id, {"already_ok"})
       /\ clickup[k].id \in hist.written
       /\ clickup[k] # hist.start[k]

\* C13: for a document whose id is a known duplicate the tool lists no
\* pages, reads no page, makes no export and no mutating call, whatever the
\* flags: the document is passed over, gets no class and stays as it was.
C13_KnownDuplicatesExcluded ==
  Fix =>
    \A j \in DOMAIN clickup :
      LET id == clickup[j].id
      IN  id \in KnownDuplicateIds =>
            /\ id \notin hist.read
            /\ id \notin hist.exported
            /\ id \notin hist.written
            /\ id \notin DOMAIN hist.class
            /\ id \in DOMAIN hist.outcome => hist.outcome[id] = "skipped"
            /\ pc \in {"r_read1", "r_read2", "r_copy", "r_clear", "r_export",
                       "r_write"} => docs[i].id # id
            /\ clickup[j] = hist.start[j]

C13_Witness ==
  /\ Fix /\ ~args.dry_run /\ args.refill_from_drive /\ pc = "done"
  /\ hist.wcalls > 0
  /\ \E j \in DOMAIN clickup :
       /\ clickup[j].id \in KnownDuplicateIds
       /\ Page0Blank(clickup[j]) /\ Page1Usable(clickup[j])
       /\ Was(hist.outcome, clickup[j].id, {"skipped"})
       /\ clickup[j].id \notin hist.read

\* The ids of the documents the folder held under this name when the run
\* began.
IdsNamed(name) ==
  {hist.start[j].id : j \in {q \in DOMAIN hist.start : hist.start[q].name = name}}

\* C14: the duplicate report of a run names exactly the names that more than
\* one document of the folder carries, each with the ids of all documents of
\* that name, known duplicates included and whatever their pages hold; the
\* report exists when the first document is about to be looked at, before
\* any page listing, page read or write of the run, and ClickUp is as it was.
C14_DuplicateReport ==
  (Fix /\ pc # "aborted") =>
    /\ DOMAIN duplicates =
         {hist.start[j].name : j \in {q \in DOMAIN hist.start :
                                  Cardinality(IdsNamed(hist.start[q].name)) > 1}}
    /\ \A name \in DOMAIN duplicates :
         /\ {duplicates[name][q].id : q \in DOMAIN duplicates[name]}
              = IdsNamed(name)
         /\ Len(duplicates[name]) = Cardinality(IdsNamed(name))
    /\ (pc = "r_pages" /\ i = 1) =>
         /\ hist.read = {} /\ hist.wcalls = 0 /\ hist.outcome = << >>
         /\ clickup = hist.start

C14_Witness ==
  /\ Fix /\ pc = "r_pages" /\ i = 1 /\ hist.read = {}
  /\ DOMAIN duplicates = {"Daily Standup -- 2026-02-18"}
  /\ Len(duplicates["Daily Standup -- 2026-02-18"]) = 2
  /\ \E j, k \in DOMAIN clickup :
       /\ clickup[j].id \in KnownDuplicateIds
       /\ clickup[k].id \notin KnownDuplicateIds
       /\ clickup[j].name = clickup[k].name
       /\ Page1Usable(clickup[j]) /\ ~Page1Usable(clickup[k])

\* C15: in a non-dry run a document is classified NeedsRefill exactly when
\* its page 0 is blank, its page 1 is absent or blank, refill is enabled and
\* a Drive document was created on the date in its name; the run then ends it
\* as refilled or as an error; when refilled, that Drive document was
\* exported, page 0 holds the formatted export under the document's name,
\* every other page is as it was, and refilled counts it once.
C15_Refill ==
  (Fix /\ ~args.dry_run) =>
    /\ \A j \in DOMAIN clickup :
         LET id == clickup[j].id
             was == hist.start[j]
             now == clickup[j]
         IN  /\ id \in DOMAIN hist.class =>
                  (hist.class[id] = "NeedsRefill"
                     <=> /\ Page0Blank(was) /\ ~Page1Usable(was)
                         /\ args.refill_from_drive
                         /\ SourcesFor(was) # {})
             /\ (/\ Was(hist.class, id, {"NeedsRefill"})
                 /\ id \in DOMAIN hist.outcome) =>
                  /\ hist.outcome[id] \in {"refilled", "errors"}
                  /\ hist.outcome[id] = "refilled" =>
                       /\ id \in hist.exported
                       /\ \E d \in SourcesFor(was) :
                            now.pages[1] =
                              [id |-> was.pages[1].id, name |-> was.name,
                               content |-> format_doc_content(
                                             d.name, d.createdTime,
                                             DriveText(d.id)).content]
                       /\ Len(now.pages) = Len(was.pages)
                       /\ \A q \in 2..Len(was.pages) : now.pages[q] = was.pages[q]
             /\ Was(hist.outcome, id, {"refilled"}) =>
                  Was(hist.class, id, {"NeedsRefill"})
    /\ counts.refilled = OutcomeCount("refilled")

C15_Witness ==
  /\ Fix /\ ~args.dry_run /\ args.refill_from_drive /\ pc = "done"
  /\ counts.refilled = 1 /\ hist.wcalls = 1
  /\ \E j \in DOMAIN clickup :
       /\ Was(hist.outcome, clickup[j].id, {"refilled"})
       /\ Len(clickup[j].pages) = 2
       /\ hist.start[j].pages[1].content = " "
       /\ clickup[j].pages[1].name = "Daily Standup -- 2026-02-11"
       /\ clickup[j].pages[1].content =
            "# Daily Standup -- 2026-02-11\n\n**Source:** Daily Standup and Checkin - 2026/02/11 09:00\n**Date:** Wednesday, February 11, 2026\n\n---\n\nStandup notes for Wednesday"
       /\ clickup[j].pages[2] = hist.start[j].pages[2]

\* C16: a document with a blank page 0, no usable page 1 and refill disabled
\* receives no mutating call and is classified NeedsManualRefill, apart from
\* AlreadyOk: when the run ends, already-ok counts exactly the documents
\* that had content in page 0.
C16_ManualRefillDistinct ==
  (Fix /\ pc = "done") =>
    /\ \A id \in DOMAIN hist.class :
         hist.class[id] = "NeedsManualRefill" =>
           /\ id \notin hist.written
           /\ hist.outcome[id] # "already_ok"
    /\ counts.already_ok =
         Cardinality({id \in DOMAIN hist.class :
                        NonBlank(StartDoc(id).pages[1].content)})

\* The date each document name of the model carries.
DateIn(name) ==
  CASE name = "Daily Standup -- 2026-02-11" -> "2026-02-11"
    [] name = "Daily Standup -- 2026-02-18" -> "2026-02-18"
    [] OTHER -> None

\* No date in the name, or no Drive document created on that date.
NoSource(doc) ==
  \/ DateIn(doc.name) = None
  \/ \A d \in Range(drive) : IsoDate(d.createdTime) # DateIn(doc.name)

\* C17: with refill enabled, a document with a blank page 0 and no usable
\* page 1 is classified NoSourceMatch exactly when its name carries no date
\* or no Drive document was created on that date; for such a document no
\* export and no write is made, it stays as it was, it is counted as an
\* error, and the run does not come back to it.
C17_NoSourceMatch ==
  Fix =>
    /\ \A j \in DOMAIN clickup :
         LET id == clickup[j].id
             was == hist.start[j]
         IN  /\ id \in DOMAIN hist.class =>
                  (hist.class[id] = "NoSourceMatch"
                     <=> /\ Page0Blank(was) /\ ~Page1Usable(was)
                         /\ args.refill_from_drive
                         /\ NoSource(was))
             /\ Was(hist.class, id, {"NoSourceMatch"}) =>
                  /\ id \notin hist.exported
                  /\ id \notin hist.written
                  /\ clickup[j] = was
                  /\ Was(hist.outcome, id, {"errors"})
                  /\ pc \notin Stopped => docs[i].id # id
    /\ counts.errors = OutcomeCount("errors")

C17_Witness ==
  /\ Fix /\ ~args.dry_run /\ args.refill_from_drive /\ pc = "done"
  /\ counts.errors = 2 /\ hist.exported = {} /\ hist.wcalls = 0
  /\ \E j, k \in DOMAIN clickup :
       /\ clickup[j].name = "Meeting notes"
       /\ clickup[k].name = "Daily Standup -- 2026-02-18"
       /\ Was(hist.class, clickup[j].id, {"NoSourceMatch"})
       /\ Was(hist.class, clickup[k].id, {"NoSourceMatch"})

(***************************************************************************)
(* The two formatters on the same input: format_doc of the migration and   *)
(* format_doc_content of the repair.  The time stamp is given as the       *)
(* fields datetime.fromisoformat returns; both functions parse it with the *)
(* same expression.                                                        *)
(***************************************************************************)
FormatNames ==
  {"Daily Standup and Checkin - 2026/02/10 09:00", "", "Notes\nsecond line"}

FormatTimes ==
  {[year |-> 2026, month |-> 2, day |-> 10, hour |-> 14],
   [year |-> 2026, month |-> 2, day |-> 9, hour |-> 0],
   [year |-> 2024, month |-> 2, day |-> 29, hour |-> 23],
   [year |-> 2025, month |-> 12, day |-> 31, hour |-> 23],
   [year |-> 2026, month |-> 1, day |-> 1, hour |-> 0]}

FormatBodies == {"", "Standup notes", "# Heading\n\n---\n"}

InitFormat ==
  /\ fmt \in {[input |-> [file_name |-> n, created_time |-> t,
                          text_content |-> b],
               migration |-> << >>, repair |-> << >>] :
                n \in FormatNames, t \in FormatTimes, b \in FormatBodies}
  /\ drive = << >>
  /\ clickup = << >>
  /\ stateFile = NoFile
  /\ pc = "init"
  /\ runs = 0
  /\ args = NoArgs
  /\ processed = {}
  /\ to_process = << >>
  /\ i = 0
  /\ item = NoItem
  /\ counts = NoCounts
  /\ docs = << >>
  /\ drive_index = << >>
  /\ duplicates = << >>
  /\ disk = NoDisk
  /\ hist = NoHist

toolVars == << drive, clickup, stateFile, pc, runs, args, processed,
               to_process, i, item, counts, docs, drive_index, duplicates,
               disk, hist >>

\* backfill main, lines 442-444: a call of format_doc.
FormatMigration ==
  /\ Len(fmt.migration) < MaxCalls
  /\ fmt' = [fmt EXCEPT !.migration =
               Append(@, format_doc(fmt.input.file_name,
                                    fmt.input.created_time,
                                    fmt.input.text_content))]
  /\ UNCHANGED toolVars

\* fix main, lines 432-434: a call of format_doc_content.
FormatRepair ==
  /\ Len(fmt.repair) < MaxCalls
  /\ fmt' = [fmt EXCEPT !.repair =
               Append(@, format_doc_content(fmt.input.file_name,
                                            fmt.input.created_time,
                                            fmt.input.text_content))]
  /\ UNCHANGED toolVars

NextFormat == FormatMigration \/ FormatRepair

SpecFormat == InitFormat /\ [][NextFormat]_vars

\* C18: on the same name, time stamp and body every call of format_doc and
\* every call of format_doc_content return the same title and the same page
\* body, and two calls of the same function return the same result.
C18_FormatterEquivalence ==
  /\ \A a \in Range(fmt.migration) : \A b \in Range(fmt.repair) :
       /\ a.doc_name = b.doc_name
       /\ a.content = b.content
  /\ \A a, b \in Range(fmt.migration) : a = b
  /\ \A a, b \in Range(fmt.repair) : a = b

C18_Witness ==
  /\ Len(fmt.migration) = 2 /\ Len(fmt.repair) = 2
  /\ fmt.input.created_time.day = 9
  /\ fmt.input.file_name = "Notes\nsecond line"
  /\ fmt.input.text_content = "Standup notes"
  /\ fmt.migration[2].doc_name = "Daily Standup -- 2026-02-09"
  /\ fmt.repair[1].content =
       "# Daily Standup -- 2026-02-09\n\n**Source:** Notes\nsecond line\n**Date:** Monday, February 9, 2026\n\n---\n\nStandup notes"

\* C19: in every run each request to ClickUp but the first follows a
\* time.sleep made after the request before it, within one item and from
\* one item to the next, on success and on every failure path.
C19_PacedBetweenCalls == ~hist.unpaced

\* C20: a run ends before its loop only for a missing credential; a failed
\* request to Drive or ClickUp, the listings included, is caught and the run
\* goes on to its summary.
C20_OnlyCredentialAborts ==
  pc = "aborted" => hist.cause = "no_credential"

(***************************************************************************)
(* save_state at the level of the file system: backfill lines 131-137.     *)
(* Path.write_text opens STATE_FILE for writing, which creates or empties  *)
(* it, writes the text of json.dumps and closes.  There is no temporary    *)
(* file and no rename.  A process killed inside the call leaves what had   *)
(* reached the disk by then: any prefix of the text.                       *)
(***************************************************************************)
SavePcs == {"s_open", "s_write"}

\* json.dumps({"processed_ids": sorted(processed_ids)}, indent=2), one
\* element per piece of text.
json_dumps(processed_ids) ==
  << "{\"processed_ids\": [" >> \o sorted(processed_ids) \o << "]}" >>

\* STATE_FILE.exists() and json.loads(STATE_FILE.read_text()), lines 125-127:
\* the text is read back when it is the whole text of some record.
Readable(d) ==
  d.exists => \E S \in SUBSET {AllDrive[j].id : j \in DOMAIN AllDrive} :
                 d.text = json_dumps(S)

DiskOf(file) ==
  IF file.exists
  THEN [exists |-> TRUE, text |-> json_dumps(Range(file.processed_ids))]
  ELSE NoDisk

\* The call save_state(processed) of line 499, after processed.add(file_id)
\* of line 498, over every record a previous run can have left.
InitSave ==
  /\ \E old \in SUBSET {AllDrive[j].id : j \in DOMAIN AllDrive} :
       \E had \in BOOLEAN :
         \E file_id \in {AllDrive[j].id : j \in DOMAIN AllDrive} \ old :
           /\ Cardinality(old) <= NumSrc
           /\ had \/ old = {}
           /\ stateFile = (IF had THEN save_state(old) ELSE NoFile)
           /\ processed = old \cup {file_id}
           /\ hist = [NoHist EXCEPT !.before = old, !.loaded = old]
  /\ disk = DiskOf(stateFile)
  /\ drive = AllDrive
  /\ clickup = << >>
  /\ pc = "s_open"
  /\ runs = 1
  /\ args = [NoArgs EXCEPT !.tool = "backfill"]
  /\ to_process = << >>
  /\ i = 0
  /\ item = NoItem
  /\ counts = NoCounts
  /\ docs = << >>
  /\ drive_index = << >>
  /\ duplicates = << >>
  /\ fmt = NoFmt

saveVars == << drive, clickup, runs, args, processed, to_process, i, item,
               counts, docs, drive_index, duplicates, fmt, hist >>

\* write_text, line 134: open(mode="w") creates the file or empties it.
SaveOpen ==
  /\ pc = "s_open"
  /\ disk' = [exists |-> TRUE, text |-> << >>]
  /\ pc' = "s_write"
  /\ UNCHANGED stateFile
  /\ UNCHANGED saveVars

\* write_text, line 134: the next piece of the text reaches the disk.
SaveWrite ==
  /\ pc = "s_write"
  /\ Len(disk.text) < Len(json_dumps(processed))
  /\ disk' = [disk EXCEPT !.text =
                Append(@, json_dumps(processed)[Len(disk.text) + 1])]
  /\ UNCHANGED << stateFile, pc >>
  /\ UNCHANGED saveVars

\* write_text returns, line 137: the whole text is on the disk.
SaveClose ==
  /\ pc = "s_write"
  /\ disk.text = json_dumps(processed)
  /\ stateFile' = save_state(processed)
  /\ pc' = "done"
  /\ UNCHANGED disk
  /\ UNCHANGED saveVars

\* The process is killed inside save_state.
SaveKill ==
  /\ pc \in SavePcs
  /\ pc' = "killed"
  /\ UNCHANGED << stateFile, disk >>
  /\ UNCHANGED saveVars

NextSave == SaveOpen \/ SaveWrite \/ SaveClose \/ SaveKill

SpecSave == InitSave /\ [][NextSave]_vars

\* C21: when the process is interrupted during save_state, the persisted
\* record is the complete previous set or the complete new set, and never a
\* partial or unreadable record.
C21_AtomicSave ==
  pc = "killed" =>
    /\ Readable(disk)
    /\ disk \in {DiskOf(stateFile), DiskOf(save_state(processed))}

\* What does hold: a call of save_state that returns leaves the complete new
\* record, and a kill before the file is opened leaves the previous one.
C21_CompleteWhenReturned ==
  pc = "done" => disk = DiskOf(save_state(processed)) /\ Readable(disk)

(***************************************************************************)
(* The order of the steps of one work item: backfill lines 439-510.        *)
(***************************************************************************)
\* What the steps already made have left, for the item of the iteration.
StepsDone ==
  LET d == to_process[i]
      f == format_doc(d.name, d.createdTime, item.text)
      exported == item.text # None
      created == /\ item.doc_id # None
                 /\ \E j \in DOMAIN clickup : /\ clickup[j].id = item.doc_id
                                              /\ clickup[j].src = d.id
      listed == item.page_id # None
      replaced == /\ listed
                  /\ DocById(clickup, item.doc_id).pages[1].name = f.doc_name
                  /\ DocById(clickup, item.doc_id).pages[1].content = f.content
      recorded == d.id \in processed \/ d.id \in PersistedIds
  IN  [export |-> exported, create |-> created, pages |-> listed,
       edit |-> replaced, record |-> recorded]

StepOrder == << "export", "create", "pages", "edit", "record" >>

\* At the step of position k the steps before it are made, and neither it
\* nor a later one is.
InStepOrder ==
  \A k \in DOMAIN StepOrder :
    pc = StepOrder[k] =>
      \A q \in DOMAIN StepOrder : StepsDone[StepOrder[q]] <=> q < k

StepAfter(step) ==
  StepOrder[(CHOOSE k \in DOMAIN StepOrder : StepOrder[k] = step) + 1]

\* C22: the steps of a work item are made in the order export, create shell,
\* list pages, replace page, ledger add and persist; a step that fails ends
\* the item: no later step of it is made, it is counted as failed once, the
\* loop moves to the next item and no item is attempted twice in a run.
C22_StepOrder ==
  /\ [](pc \in PlannerPcs =>
          /\ InStepOrder
          /\ counts.created + counts.errors = i - 1
          /\ pc = "export" => to_process[i].id \notin hist.attempted)
  /\ [][(pc \in PlannerPcs /\ pc' \notin {"killed", "interrupted"}) =>
          \/ /\ pc # "record"
             /\ pc' = StepAfter(pc)
             /\ i' = i /\ counts' = counts
          \/ /\ pc = "record"
             /\ counts' = [counts EXCEPT !.created = @ + 1]
             /\ i' = i + 1
             /\ pc' = IF i < Len(to_process) THEN "export" ELSE "done"
          \/ /\ counts' = [counts EXCEPT !.errors = @ + 1]
             /\ i' = i + 1
             /\ pc' = IF i < Len(to_process) THEN "export" ELSE "done"
             /\ UNCHANGED << processed, stateFile >>]_vars

\* A run of two items: the first failed after its shell was created, the
\* second went through the five steps.
C22_Witness ==
  /\ Loaded /\ pc = "done" /\ ~args.dry_run
  /\ Len(to_process) = 2 /\ Len(clickup) = 2
  /\ counts.errors = 1 /\ counts.created = 1
  /\ hist.recorded = {to_process[2].id}
  /\ hist.attempted = Ids(to_process)

(***************************************************************************)
(* One application of either tool: the Planner on a Drive folder with an   *)
(* empty ClickUp folder, or the Reconciler on a ClickUp folder.            *)
(***************************************************************************)
\* The bookkeeping of the state is that of a Reconciler run.
OfReconciler == "start" \in DOMAIN hist

NextTools ==
  \/ \E d, r \in BOOLEAN : ~OfReconciler /\ runs < MaxFixOnce /\ PStart(d, r)
  \/ \E d, r \in BOOLEAN : \E c \in AbortCauses :
       ~OfReconciler /\ runs < MaxFixOnce /\ PStartFails(d, r, c)
  \/ \E ok \in BOOLEAN : PExport(ok)
  \/ \E o \in {"ok", "no_id", "error"} : PCreate(o)
  \/ \E o \in {"ok", "empty", "error"} : PPages(o)
  \/ \E ok \in BOOLEAN : PEdit(ok)
  \/ PRecord
  \/ PCrash
  \/ \E d, r \in BOOLEAN : OfReconciler /\ runs < MaxFixOnce /\ RStart(d, r)
  \/ \E d, r \in BOOLEAN :
       OfReconciler /\ runs < MaxFixOnce /\ RStartFails(d, r)
  \/ RSkip
  \/ \E ok \in BOOLEAN : RListPages(ok)
  \/ \E ok \in BOOLEAN : RRead1(ok)
  \/ \E ok \in BOOLEAN : RRead2(ok)
  \/ \E ok \in BOOLEAN : RCopy(ok)
  \/ \E ok \in BOOLEAN : RClear(ok)
  \/ \E ok \in BOOLEAN : RExport(ok)
  \/ \E ok \in BOOLEAN : RWrite(ok)

SpecTools == (InitPlanner \/ InitReconciler) /\ [][NextTools]_vars

\* The Drive document a ClickUp document of the Planner was created for.
SourceOf(doc) == CHOOSE d \in Range(drive) : d.id = doc.src

\* A document of the Planner: the one page it was created with, either as
\* created or replaced by the formatted title and the formatted body.
PlannerPageZero(doc) ==
  LET d == SourceOf(doc)
      f == format_doc(d.name, d.createdTime, DriveText(d.id))
  IN  /\ Len(doc.pages) = 1
      /\ \/ doc.pages[1] = DefaultPage(doc.id)
         \/ doc.pages[1] = [id |-> DefaultPage(doc.id).id,
                            name |-> f.doc_name, content |-> f.content]

\* A document of the Reconciler against what it was when the run began: the
\* same pages; page 0 as it was, or replaced as a whole by page 1's name and
\* content or by the document's name and a formatted export; every other
\* page as it was, or page 1 neutralized.
ReconcilerPageZero(was, now) ==
  /\ now.id = was.id
  /\ Len(now.pages) = Len(was.pages)
  /\ \A q \in DOMAIN now.pages :
       \/ now.pages[q] = was.pages[q]
       \/ /\ q = 1 /\ Page1Usable(was)
          /\ now.pages[1] = [id |-> was.pages[1].id,
                             name |-> was.pages[2].name,
                             content |-> was.pages[2].content]
       \/ /\ q = 1
          /\ \E d \in SourcesFor(was) :
               now.pages[1] =
                 [id |-> was.pages[1].id, name |-> was.name,
                  content |-> format_doc_content(d.name, d.createdTime,
                                                 DriveText(d.id)).content]
       \/ /\ q = 2
          /\ now.pages[2] = [id |-> was.pages[2].id, name |-> ClearedName,
                             content |-> ClearedContent]

\* C23: every content write of the Planner and of the Reconciler's promotion
\* and refill is a replace of the first page of the document's page listing;
\* the Planner writes the formatted body under the formatted title; no path
\* adds a page, and no page other than page 0 receives primary content.
C23_PageZeroTargeting ==
  /\ (Backfill /\ pc = "edit") =>
       item.page_id = get_doc_pages(clickup, item.doc_id)[1].id
  /\ Backfill => \A j \in DOMAIN clickup : PlannerPageZero(clickup[j])
  /\ (Fix /\ pc \in {"r_copy", "r_write"}) =>
       item.pages[1].id = get_doc_pages(clickup, docs[i].id)[1].id
  /\ Fix => /\ Len(clickup) = Len(hist.start)
            /\ \A j \in DOMAIN clickup :
                 ReconcilerPageZero(hist.start[j], clickup[j])

\* The Planner has replaced the page of a created document.
C23_WitnessPlanner ==
  /\ Backfill /\ pc = "record"
  /\ clickup[Len(clickup)].pages[1].content =
       format_doc(to_process[i].name, to_process[i].createdTime,
                  DriveText(to_process[i].id)).content

\* The Reconciler has refilled page 0 of a document of two pages.
C23_Witness ==
  /\ Fix /\ pc = "done" /\ counts.refilled >= 1
  /\ \E j \in DOMAIN clickup :
       /\ Len(clickup[j].pages) >= 2
       /\ clickup[j].pages[1] # hist.start[j].pages[1]
       /\ clickup[j].pages[2] = hist.start[j].pages[2]

\* The documents of the listing whose iteration is over.
Visited == IF pc = "done" THEN Len(docs) ELSE i - 1

\* C24: a target document whose processing fails at a read or write call, or
\* that has no pages, is counted as an error once, and every later document
\* of the listing is still processed: each visited document went to exactly
\* one counter, and at the end every listed document was visited.
C24_ReconcilerFailureIsolation ==
  (Fix /\ pc # "aborted") =>
    /\ DOMAIN hist.outcome = {docs[k].id : k \in 1..Visited}
    /\ counts.errors = OutcomeCount("errors")
    /\ counts.errors + counts.fixed + counts.refilled + counts.already_ok
         + OutcomeCount("skipped") = Visited
    /\ pc \in {"r_pages", "r_read1", "r_read2", "r_copy", "r_clear",
               "r_export", "r_write"} => i \in DOMAIN docs

\* The first document failed after page 0 was written, the second one was
\* then promoted.
C24_Witness ==
  /\ Fix /\ pc = "done" /\ ~args.dry_run
  /\ Len(docs) = 2
  /\ hist.outcome[docs[1].id] = "errors"
  /\ docs[1].id \in hist.written
  /\ hist.outcome[docs[2].id] = "fixed"
  /\ counts.errors = 1 /\ counts.fixed = 1

\* The position of a Drive document in the listing.
ListedAt(id) == CHOOSE k \in DOMAIN drive : drive[k].id = id

\* C25: the work queue is the listed documents whose id is not in the loaded
\* ledger, in listing order; skipped is the number of listed documents that
\* are in it; and at the end of a run that is not a dry run
\* created + skipped + failed is the number of listed documents.
C25_QueueAndSummary ==
  Loaded =>
    /\ Ids(to_process) = Ids(drive) \ hist.loaded
    /\ Len(to_process) = Cardinality(Ids(to_process))
    /\ \A a, b \in DOMAIN to_process :
         a < b => ListedAt(to_process[a].id) < ListedAt(to_process[b].id)
    /\ \A k \in DOMAIN to_process : to_process[k] = drive[ListedAt(to_process[k].id)]
    /\ counts.skipped = Cardinality(Ids(drive) \cap hist.loaded)
    /\ (pc = "done" /\ ~args.dry_run) =>
         counts.created + counts.skipped + counts.errors = Len(drive)

\* The end of a run over two listed documents: one was in the ledger, the
\* other failed.
C25_Witness ==
  /\ Loaded /\ pc = "done" /\ ~args.dry_run
  /\ Len(drive) = 2
  /\ counts.skipped = 1 /\ counts.errors = 1 /\ counts.created = 0

(***************************************************************************)
(* The paged listing of the Drive folder: list_standup_docs (backfill      *)
(* lines 144-180) and list_drive_docs (fix lines 196-228), the same loop.  *)
(* The store answers a request with the next files after the position the  *)
(* token stands for, at most PageSize of them, and with a token when files *)
(* remain.  It may answer with a page of no files and a token, at most     *)
(* MaxEmptyPages times in a call.                                          *)
(***************************************************************************)
PageSize == 2
MaxEmptyPages == 1

\* The requests a call makes at most against such a store.
MaxRequests == Len(AllDrive) + MaxEmptyPages + 1

\* nextPageToken for "the files after position p".
Token(p) == "token-" \o ToString(p)
PositionOf(page_token) ==
  IF page_token = None THEN 0
  ELSE CHOOSE p \in 0..Len(AllDrive) : Token(p) = page_token

RECURSIVE Concat(_)
Concat(pages) ==
  IF pages = << >> THEN << >> ELSE Head(pages) \o Concat(Tail(pages))

\* hist of a listing call: the token of each request made and the files and
\* token of each response received.
LNoHist == [sent |-> << >>, responses |-> << >>]

EmptyPages(h) ==
  Cardinality({k \in DOMAIN h.responses :
                 h.responses[k].files = << >>
                   /\ h.responses[k].nextPageToken # None})

\* Lines 157-158: docs = [], page_token = None.
InitList ==
  /\ drive \in {SubSeq(AllDrive, 1, n) : n \in 0..Len(AllDrive)}
  /\ docs = << >>
  /\ item = [page_token |-> None]
  /\ pc = "l_request"
  /\ hist = LNoHist
  /\ clickup = << >>
  /\ stateFile = NoFile
  /\ runs = 0
  /\ args = NoArgs
  /\ processed = {}
  /\ to_process = << >>
  /\ i = 0
  /\ counts = NoCounts
  /\ drive_index = << >>
  /\ duplicates = << >>
  /\ fmt = NoFmt
  /\ disk = NoDisk

listVars == << drive, clickup, stateFile, runs, args, processed, to_process,
               i, counts, drive_index, duplicates, fmt, disk >>

\* GET .../files with pageToken, answered with k files.
Response(page_token, k) ==
  LET p == PositionOf(page_token)
  IN  [files |-> SubSeq(drive, p + 1, p + k),
       nextPageToken |-> IF p + k < Len(drive) THEN Token(p + k) ELSE None]

\* The loop returns after the first response (no "while True").
ListPageOnce(k) ==
  LET resp == Response(item.page_token, k)
  IN  /\ pc = "l_request"
      /\ Len(hist.sent) < MaxRequests
      /\ k <= Len(drive) - PositionOf(item.page_token)
      /\ k = 0 /\ resp.nextPageToken # None => EmptyPages(hist) < MaxEmptyPages
      /\ docs' = docs \o resp.files
      /\ item' = [item EXCEPT !.page_token = resp.nextPageToken]
      /\ pc' = "listed"
      /\ hist' = [sent |-> Append(hist.sent, item.page_token),
                  responses |-> Append(hist.responses, resp)]
      /\ UNCHANGED listVars

\* Lines 160-178: one pass of the loop with a response that is not an error.
ListPage(k) ==
  LET resp == Response(item.page_token, k)
  IN  /\ pc = "l_request"
      /\ Len(hist.sent) < MaxRequests
      /\ k <= Len(drive) - PositionOf(item.page_token)
      /\ k = 0 /\ resp.nextPageToken # None => EmptyPages(hist) < MaxEmptyPages
      /\ docs' = docs \o resp.files
      /\ item' = [item EXCEPT !.page_token = resp.nextPageToken]
      /\ pc' = IF resp.nextPageToken = None THEN "listed" ELSE "l_request"
      /\ hist' = [sent |-> Append(hist.sent, item.page_token),
                  responses |-> Append(hist.responses, resp)]
      /\ UNCHANGED listVars

\* Line 172: raise_for_status on an error response leaves the function.
ListFails ==
  /\ pc = "l_request"
  /\ Len(hist.sent) < MaxRequests
  /\ pc' = "aborted"
  /\ hist' = [hist EXCEPT !.sent = Append(@, item.page_token)]
  /\ UNCHANGED << docs, item >>
  /\ UNCHANGED listVars

NextList ==
  \/ \E k \in 0..PageSize : ListPage(k)
  \/ ListFails

\* The loop has no wait: a pass follows the previous one.
SpecList == InitList /\ [][NextList]_vars /\ WF_vars(NextList)

\* C26: the listing requests pages repeatedly, each request after the first
\* carrying the token of the previous response; it goes on while responses
\* carry a token and ends at the first response without one; given that the
\* store eventually sends such a response, the call ends, and it returns the
\* concatenation, in order, of the files of every page fetched.
C26_Pagination ==
  /\ [](pc \in {"l_request", "listed"} =>
          /\ Len(hist.sent) = Len(hist.responses)
          /\ \A k \in DOMAIN hist.sent :
               hist.sent[k] = IF k = 1 THEN None
                              ELSE hist.responses[k - 1].nextPageToken
          /\ \A k \in DOMAIN hist.responses :
               k < Len(hist.responses) =>
                 hist.responses[k].nextPageToken # None
          /\ docs = Concat([k \in DOMAIN hist.responses |->
                              hist.responses[k].files])
          /\ pc = "listed" <=>
               /\ hist.responses # << >>
               /\ hist.responses[Len(hist.responses)].nextPageToken = None)
  /\ <>(pc \in {"listed", "aborted"})

\* A listing of three pages, one of them without files, that returned the
\* whole folder.
C26_Witness ==
  /\ pc = "listed"
  /\ "sent" \in DOMAIN hist
  /\ Len(hist.responses) = 3
  /\ EmptyPages(hist) = 1
  /\ Len(docs) = 3 /\ docs = drive

\* Page 1 of the document is no longer what it was when the run began.
Page1Changed(was, now) == Len(was.pages) >= 2 /\ now.pages[2] # was.pages[2]

\* C27: in every state of a Reconciler run, whether or not the page-0 write
\* or the neutralize call fails, the content page 1 held when the run began
\* is in page 0 or in page 1; page 1 is neutralized only after the page-0
\* replace has returned successfully, so that page 0 then holds it.
C27_NoContentLoss ==
  Fix =>
    /\ \A j \in DOMAIN clickup :
         LET was == hist.start[j]
             now == clickup[j]
         IN  /\ Page1Usable(was) =>
                  was.pages[2].content \in {now.pages[1].content,
                                            now.pages[2].content}
             /\ Page1Changed(was, now) =>
                  /\ Page1Usable(was)
                  /\ now.pages[1].name = was.pages[2].name
                  /\ now.pages[1].content = was.pages[2].content
    /\ pc = "r_clear" =>
         LET now == DocById(clickup, docs[i].id)
         IN  /\ now.pages[1].content = item.page2_content
             /\ now.pages[2].content = item.page2_content
             /\ NonBlank(item.page2_content)

\* The neutralize call failed after the copy: the content is in both pages
\* and the document is counted as an error.
C27_Witness ==
  /\ Fix /\ pc = "done" /\ ~args.dry_run
  /\ \E j \in DOMAIN clickup :
       /\ Page0Blank(hist.start[j]) /\ Page1Usable(hist.start[j])
       /\ clickup[j].pages[1].content = hist.start[j].pages[2].content
       /\ clickup[j].pages[2] = hist.start[j].pages[2]
       /\ hist.outcome[clickup[j].id] = "errors"

====
